---- MODULE Spec2Model ----
(***************************************************************************)
(* Model of the mlProject schema validator (components/data_validation.py) *)
(* and of its utility library (utils/common.py).                           *)
(*                                                                         *)
(* Text is modelled as text: the status file, the log messages and the     *)
(* strings the functions return are TLA+ strings built with \o exactly as  *)
(* the Python f-strings, str(), repr() and "\n".join build them.           *)
(***************************************************************************)
EXTENDS Integers, Sequences, FiniteSets, TLC

\* -------------------------------------------------------------------------
\* Universe of the schema validator
\* -------------------------------------------------------------------------

\* Consecutive calls on unchanged inputs that the model follows.
MaxRuns == 2

\* Column names that may occur in a schema or in a table.
Cols == {"a", "b", "c"}

\* Type tags a schema may give a column (all_schema values).
SchemaTags == {"int64", "object"}

\* Dtypes pandas may infer for a column of the loaded table.
Dtypes == {"int64", "object"}

\* Exceptions pd.read_csv may raise: the file cannot be opened, or it does
\* not parse.
LoadErrors == {"FileNotFoundError", "ParserError"}

\* config.unzip_data_dir and config.STATUS_FILE (fixed paths).
DataPath == "data.csv"

\* Marker for a file that does not exist.
NoFile == [exists |-> FALSE, text |-> ""]

File(text) == [exists |-> TRUE, text |-> text]

\* A status file left behind by some earlier, unrelated run.
StaleReport == File("Validation status: False\nMissing columns: ['z']")

\* Exception objects: the type and, for a wrapping exception, its cause.
NoExc == [type |-> "", cause |-> ""]

Exc(t) == [type |-> t, cause |-> ""]

\* Result of a call: nothing yet, a returned value, or a raised exception.
NoOutcome == [kind |-> "none", value |-> FALSE, exc |-> NoExc]

Returned(v) == [kind |-> "return", value |-> v, exc |-> NoExc]

Raised(e) == [kind |-> "raise", value |-> FALSE, exc |-> e]

\* All sequences without repetition over S (the key orders of a dict).
RECURSIVE Perms(_)
Perms(S) ==
    IF S = {} THEN {<<>>}
    ELSE UNION {{<<x>> \o p : p \in Perms(S \ {x})} : x \in S}

KeyOrders == UNION {Perms(K) : K \in SUBSET Cols}

\* A schema is an insertion-ordered dict: a sequence of (column, tag) items
\* with distinct columns.
Schemas ==
    UNION {{[i \in 1..Len(ks) |-> [col |-> ks[i], type |-> tg[i]]] :
              tg \in [1..Len(ks) -> SchemaTags]} : ks \in KeyOrders}

\* A loaded table: its columns and the dtype of each.  read_csv raises on a
\* file without columns, so a loaded table has at least one.
Tables == UNION {[K -> Dtypes] : K \in (SUBSET Cols) \ {{}}}

\* The local `data` of validate_all_columns: unassigned until read_csv
\* returns.
NoData == [loaded |-> FALSE, table |-> <<>>]

Loaded(t) == [loaded |-> TRUE, table |-> t]

\* Log records of the process-wide logger: level and message.
LogRec(level, msg) == [level |-> level, msg |-> msg]

VARIABLES
    schema,          \* config.all_schema
    csv,             \* the table stored in the file at config.unzip_data_dir
    csvErr,          \* "none", or the exception read_csv raises on that file
    statusWritable,  \* whether open(config.STATUS_FILE, 'w') succeeds
    statusFile,      \* the file at config.STATUS_FILE
    data,            \* local `data` of the most recent call
    valid,           \* local `valid` of the most recent call
    messages,        \* local `messages` of the most recent call
    log,             \* records the most recent call handed to the logger
    loads,           \* number of read_csv calls the most recent call made
    outcome,         \* how the most recent call ended
    runs,            \* calls made since the data file or the status path changed
    lastReport,      \* what the most recent call left in the status file
    yamlFile,        \* state of the file given to read_yaml
    jsonFile,        \* state of the file given to load_json
    binFile,         \* state of the file given to load_bin
    ucall,           \* the most recent utility call and how it ended
    ulog,            \* records that call handed to the logger
    bytes,           \* os.path.getsize of the file given to get_size
    fs,              \* the directory tree: what exists at each path
    lastPaths,       \* argument of the create_directories call still in effect
    made             \* directories the most recent create_directories made

vvars == <<schema, csv, csvErr, statusWritable, statusFile, data, valid,
           messages, log, loads, outcome, runs, lastReport>>

uvars == <<yamlFile, jsonFile, binFile, ucall, ulog, bytes, fs, lastPaths, made>>

vars == <<vvars, uvars>>

\* -------------------------------------------------------------------------
\* Python text conversions
\* -------------------------------------------------------------------------

\* str(bool)
PyStrBool(b) == IF b THEN "True" ELSE "False"

\* repr(str) for a string without quotes or escapes
PyReprStr(s) == "'" \o s \o "'"

\* sep.join(seq)
RECURSIVE PyJoin(_, _)
PyJoin(sep, seq) ==
    IF seq = <<>> THEN ""
    ELSE IF Len(seq) = 1 THEN seq[1]
    ELSE seq[1] \o sep \o PyJoin(sep, Tail(seq))

\* str(list of str): "['x', 'y']"
PyStrList(seq) ==
    "[" \o PyJoin(", ", [i \in 1..Len(seq) |-> PyReprStr(seq[i])]) \o "]"

\* -------------------------------------------------------------------------
\* DataValidation.validate_all_columns
\* -------------------------------------------------------------------------

\* expected_columns = list(all_schema.keys())
expected_columns(S) == [i \in 1..Len(S) |-> S[i].col]

\* The missing columns taken from the end of the schema to its start.
missing_columns_reversed(S, T) ==
    LET absent(c) == c \notin DOMAIN T
        found == SelectSeq(expected_columns(S), absent)
    IN [i \in 1..Len(found) |-> found[Len(found) + 1 - i]]

\* missing_columns = [col for col in expected_columns if col not in data.columns]
missing_columns(S, T) ==
    LET absent(c) == c \notin DOMAIN T
    IN SelectSeq(expected_columns(S), absent)

\* One entry of dtype_errors: f"{col}: expected {expected_type}, got {dtype}"
dtype_error(col, expected_type, dtype) ==
    col \o ": expected " \o expected_type \o ", got " \o dtype

\* The loop with a return inside it: only the first schema item is compared.
dtype_errors_first_only(S, T) ==
    IF S = <<>> THEN <<>>
    ELSE IF Head(S).col \in DOMAIN T /\ T[Head(S).col] # Head(S).type
    THEN <<dtype_error(Head(S).col, Head(S).type, T[Head(S).col])>>
    ELSE <<>>

\* The loop over all_schema.items() that collects dtype_errors.
RECURSIVE dtype_errors(_, _)
dtype_errors(S, T) ==
    IF S = <<>> THEN <<>>
    ELSE LET col == Head(S).col
             expected_type == Head(S).type
             here == IF col \in DOMAIN T /\ T[col] # expected_type
                     THEN <<dtype_error(col, expected_type, T[col])>>
                     ELSE <<>>
         IN here \o dtype_errors(Tail(S), T)

\* f"Missing columns: {missing_columns}"
missing_msg(missing) == "Missing columns: " \o PyStrList(missing)

\* f"Data type mismatches found: {dtype_errors}"
dtype_msg(errors) == "Data type mismatches found: " \o PyStrList(errors)

\* The checks with the flag cleared for missing columns only: a dtype
\* mismatch adds its message and leaves valid as it was.
checks_flag_from_missing_only(S, T) ==
    LET missing == missing_columns(S, T)
        errors == dtype_errors(S, T)
        m1 == IF missing # <<>> THEN <<missing_msg(missing)>> ELSE <<>>
        m2 == IF errors # <<>> THEN <<dtype_msg(errors)>> ELSE <<>>
    IN [valid |-> (missing = <<>>),
        messages |-> m1 \o m2,
        log |-> [i \in 1..Len(m1 \o m2) |-> LogRec("ERROR", (m1 \o m2)[i])]]

\* Steps 1 and 2: the locals valid and messages after both checks, and the
\* error records logged on the way.
checks(S, T) ==
    LET missing == missing_columns(S, T)
        errors == dtype_errors(S, T)
        m1 == IF missing # <<>> THEN <<missing_msg(missing)>> ELSE <<>>
        m2 == IF errors # <<>> THEN <<dtype_msg(errors)>> ELSE <<>>
    IN [valid |-> (missing = <<>>) /\ (errors = <<>>),
        messages |-> m1 \o m2,
        log |-> [i \in 1..Len(m1 \o m2) |-> LogRec("ERROR", (m1 \o m2)[i])]]

\* The with-block writing only when there are messages.
status_text_invalid_only(v, msgs) ==
    IF msgs # <<>>
    THEN "Validation status: " \o PyStrBool(v) \o "\n" \o PyJoin("\n", msgs)
    ELSE ""

\* What the with-block writes: the status line, then the joined messages.
status_text(v, msgs) ==
    "Validation status: " \o PyStrBool(v) \o "\n"
        \o (IF msgs # <<>> THEN PyJoin("\n", msgs) ELSE "")

\* The status file opened with 'a': the report is added to the old contents.
write_status_append(old, text) == File(old.text \o text)

\* open(STATUS_FILE, 'w') truncates: the old contents are dropped.
write_status(old, text) == File(text)

\* The except clause raising DataLoadError from e.
reraise_wrapped(e) == [type |-> "DataLoadError", cause |-> e.type]

\* The except clause recording the failure in the status file.
aborted_status_reported(old) == File("Validation status: False\n")

\* The except clause (lines 73-75) logs and re-raises; it does not open the
\* status file, which stays as the call found it.
aborted_status(old) == old

\* except Exception as e: ...; raise e
reraise(e) == e

\* The record logged by logger.exception in the except clause.
exception_log == <<LogRec("EXCEPTION", "Exception occurred during validation")>>

\* The whole call on schema S, data file (T, err), status file `old` and
\* writability w: every local, the log, the outcome and the status file left.
run_validation(S, T, err, w, old) ==
    IF err # "none"
    THEN \* read_csv raises: nothing after line 34 runs but the except clause
         [data |-> NoData, valid |-> TRUE, messages |-> <<>>,
          log |-> exception_log, loads |-> 1,
          outcome |-> Raised(reraise(Exc(err))), status |-> aborted_status(old)]
    ELSE LET c == checks(S, T)
             loaded == <<LogRec("INFO", "Data loaded from: " \o DataPath)>>
         IN IF w
            THEN [data |-> Loaded(T), valid |-> c.valid, messages |-> c.messages,
                  log |-> loaded \o c.log \o
                          (IF c.valid
                           THEN <<LogRec("INFO", "All validations passed successfully.")>>
                           ELSE <<>>),
                  loads |-> 1,
                  outcome |-> Returned(c.valid),
                  status |-> write_status(old, status_text(c.valid, c.messages))]
            ELSE \* open(STATUS_FILE, 'w') raises inside the try block
                 [data |-> Loaded(T), valid |-> c.valid, messages |-> c.messages,
                  log |-> loaded \o c.log \o exception_log, loads |-> 1,
                  outcome |-> Raised(reraise(Exc("PermissionError"))),
                  status |-> aborted_status(old)]

validate_all_columns ==
    /\ runs < MaxRuns
    /\ LET r == run_validation(schema, csv, csvErr, statusWritable, statusFile)
       IN /\ data' = r.data
          /\ valid' = r.valid
          /\ messages' = r.messages
          /\ log' = r.log
          /\ loads' = r.loads
          /\ outcome' = r.outcome
          /\ statusFile' = r.status
          /\ lastReport' = r.status
    /\ runs' = runs + 1
    /\ UNCHANGED <<schema, csv, csvErr, statusWritable>>
    /\ UNCHANGED uvars

\* The environment: the data file disappears, is corrupted, or comes back.
DataFileChanges ==
    /\ \E e \in {"none"} \cup LoadErrors : e # csvErr /\ csvErr' = e
    /\ runs' = 0
    /\ UNCHANGED <<schema, csv, statusWritable, statusFile, data, valid,
                   messages, log, loads, outcome, lastReport>>
    /\ UNCHANGED uvars

\* The environment: the status path is write-protected, or released again.
StatusDirChanges ==
    /\ statusWritable' = ~statusWritable
    /\ runs' = 0
    /\ UNCHANGED <<schema, csv, csvErr, statusFile, data, valid,
                   messages, log, loads, outcome, lastReport>>
    /\ UNCHANGED uvars

\* The environment: the status file is deleted, or another run leaves its
\* own report there.
StatusFileChanges ==
    /\ \E f \in {NoFile, StaleReport} : f # statusFile /\ statusFile' = f
    /\ UNCHANGED <<schema, csv, csvErr, statusWritable, data, valid,
                   messages, log, loads, outcome, runs, lastReport>>
    /\ UNCHANGED uvars

\* -------------------------------------------------------------------------
\* utils/common.py: the read operations
\* -------------------------------------------------------------------------

\* What may be found at the path given to read_yaml, load_json, load_bin.
YamlStates == {"missing", "malformed", "empty", "scalar", "mapping"}

JsonStates == {"missing", "malformed", "null", "object"}

BinStates == {"missing", "corrupt", "object"}

YamlPath == "config.yaml"

JsonPath == "metrics.json"

BinPath == "model.joblib"

\* A utility call: the operation, how it ended, the exception (type and
\* message) if it raised, the value if it returned.
UCall(op, kind, exc, msg, value) ==
    [op |-> op, kind |-> kind, exc |-> exc, msg |-> msg, value |-> value]

NoCall == UCall("", "none", "", "", "")

UReturned(op, value) == UCall(op, "return", "", "", value)

URaised(op, exc, msg) == UCall(op, "raise", exc, msg, "")

\* yaml.safe_load(yaml_file) on an opened file: the parsed content (by its
\* Python type), or the parser's exception.
yaml_safe_load(f) ==
    CASE f = "malformed" -> [raises |-> "YAMLError", content |-> ""]
      [] f = "empty" -> [raises |-> "", content |-> "NoneType"]
      [] f = "scalar" -> [raises |-> "", content |-> "str"]
      [] f = "mapping" -> [raises |-> "", content |-> "dict"]

\* json.load(f) on an opened file.
json_load(f) ==
    CASE f = "malformed" -> [raises |-> "JSONDecodeError", content |-> ""]
      [] f = "null" -> [raises |-> "", content |-> "NoneType"]
      [] f = "object" -> [raises |-> "", content |-> "dict"]

\* ConfigBox(content): a box is built from a mapping; None or a string raises
\* BoxValueError (the exception read_yaml's first except clause expects).
ConfigBox(content) ==
    IF content = "dict"
    THEN [raises |-> "", value |-> "ConfigBox"]
    ELSE [raises |-> "BoxValueError", value |-> ""]

\* read_yaml on a file in state f: the call's end and the records it logged.
read_yaml_run(f) ==
    IF f = "missing"
    THEN \* open raises; except Exception as e: raise e
         [call |-> URaised("read_yaml", "FileNotFoundError", ""), log |-> <<>>]
    ELSE LET y == yaml_safe_load(f)
             logged == <<LogRec("INFO",
                           "yaml file: " \o YamlPath \o " loaded successfully")>>
             box == ConfigBox(y.content)
         IN IF y.raises # ""
            THEN [call |-> URaised("read_yaml", y.raises, ""), log |-> <<>>]
            ELSE IF box.raises = "BoxValueError"
            THEN \* except BoxValueError: raise ValueError("yaml file is empty")
                 [call |-> URaised("read_yaml", "ValueError", "yaml file is empty"),
                  log |-> logged]
            ELSE [call |-> UReturned("read_yaml", box.value), log |-> logged]

\* load_json on a file in state f.
load_json_run(f) ==
    IF f = "missing"
    THEN [call |-> URaised("load_json", "FileNotFoundError", ""), log |-> <<>>]
    ELSE LET j == json_load(f)
             logged == <<LogRec("INFO",
                           "json file loaded successfully from: " \o JsonPath)>>
             box == ConfigBox(j.content)
         IN IF j.raises # ""
            THEN [call |-> URaised("load_json", j.raises, ""), log |-> <<>>]
            ELSE IF box.raises # ""
            THEN [call |-> URaised("load_json", box.raises, ""), log |-> logged]
            ELSE [call |-> UReturned("load_json", box.value), log |-> logged]

\* load_bin on a file in state f.
load_bin_run(f) ==
    CASE f = "missing" ->
             [call |-> URaised("load_bin", "FileNotFoundError", ""), log |-> <<>>]
      [] f = "corrupt" ->
             [call |-> URaised("load_bin", "UnpicklingError", ""), log |-> <<>>]
      [] f = "object" ->
             [call |-> UReturned("load_bin", "object"),
              log |-> <<LogRec("INFO", "binary file loaded from: " \o BinPath)>>]

read_yaml ==
    /\ ucall' = read_yaml_run(yamlFile).call
    /\ ulog' = read_yaml_run(yamlFile).log
    /\ UNCHANGED <<yamlFile, jsonFile, binFile, bytes, fs, lastPaths, made>>
    /\ UNCHANGED vvars

load_json ==
    /\ ucall' = load_json_run(jsonFile).call
    /\ ulog' = load_json_run(jsonFile).log
    /\ UNCHANGED <<yamlFile, jsonFile, binFile, bytes, fs, lastPaths, made>>
    /\ UNCHANGED vvars

load_bin ==
    /\ ucall' = load_bin_run(binFile).call
    /\ ulog' = load_bin_run(binFile).log
    /\ UNCHANGED <<yamlFile, jsonFile, binFile, bytes, fs, lastPaths, made>>
    /\ UNCHANGED vvars

\* The environment: the files the read operations are given change.
YamlFileChanges ==
    /\ \E f \in YamlStates : f # yamlFile /\ yamlFile' = f
    /\ UNCHANGED <<jsonFile, binFile, ucall, ulog, bytes, fs, lastPaths, made>>
    /\ UNCHANGED vvars

JsonFileChanges ==
    /\ \E f \in JsonStates : f # jsonFile /\ jsonFile' = f
    /\ UNCHANGED <<yamlFile, binFile, ucall, ulog, bytes, fs, lastPaths, made>>
    /\ UNCHANGED vvars

BinFileChanges ==
    /\ \E f \in BinStates : f # binFile /\ binFile' = f
    /\ UNCHANGED <<yamlFile, jsonFile, ucall, ulog, bytes, fs, lastPaths, made>>
    /\ UNCHANGED vvars

\* -------------------------------------------------------------------------
\* utils/common.py: get_size
\* -------------------------------------------------------------------------

\* Largest file size the model measures.
MaxBytes == 2600

\* The divisor of get_size.
KB == 1024

\* Rounding a half up: floor(n / d + 0.5).
py_round_half_up(n, d) == (2 * n + d) \div (2 * d)

\* round(n / d) for integers n >= 0, d > 0: Python 3 rounds a float to the
\* nearest integer and a half to the even neighbour (n / d is exact here).
py_round(n, d) ==
    LET q == n \div d
        r == n % d
    IN IF 2 * r < d THEN q
       ELSE IF 2 * r > d THEN q + 1
       ELSE IF q % 2 = 0 THEN q ELSE q + 1

\* size_in_kb = round(os.path.getsize(path) / 1024); f"~ {size_in_kb} KB"
get_size_text(b) == "~ " \o ToString(py_round(b, KB)) \o " KB"

get_size ==
    /\ ucall' = UReturned("get_size", get_size_text(bytes))
    /\ ulog' = <<>>
    /\ UNCHANGED <<yamlFile, jsonFile, binFile, bytes, fs, lastPaths, made>>
    /\ UNCHANGED vvars

\* -------------------------------------------------------------------------
\* utils/common.py: create_directories
\* -------------------------------------------------------------------------

\* Longest list of paths given to create_directories.
MaxPaths == 2

\* Consecutive create_directories calls with one list that the model follows.
MaxTimes == 2

\* The paths of the model; "" is the working directory, which exists.
Paths == {"artifacts", "artifacts/data", "logs"}

\* os.path.split(path)[0]
Parent(p) == IF p = "artifacts/data" THEN "artifacts" ELSE ""

PathLists == UNION {[1..n -> Paths] : n \in 0..MaxPaths}

\* A tree is well formed when whatever exists lies in a directory.
WellFormed(f) ==
    \A p \in Paths : (f[p] # "absent" /\ Parent(p) # "") => f[Parent(p)] = "dir"

Trees == {f \in [Paths -> {"absent", "dir", "file"}] : WellFormed(f)}

MkResult(f, raises, n) == [fs |-> f, raises |-> raises, made |-> n]

\* os.mkdir(p) on tree f.
mkdir(f, p) ==
    IF Parent(p) # "" /\ f[Parent(p)] = "file"
    THEN MkResult(f, "NotADirectoryError", 0)
    ELSE IF Parent(p) # "" /\ f[Parent(p)] = "absent"
    THEN MkResult(f, "FileNotFoundError", 0)
    ELSE IF f[p] # "absent"
    THEN MkResult(f, "FileExistsError", 0)
    ELSE MkResult([f EXCEPT ![p] = "dir"], "", 1)

\* os.makedirs(p, exist_ok=exist_ok) on tree f: the missing parents first,
\* then the leaf; an existing directory is an error unless exist_ok.
RECURSIVE makedirs(_, _, _)
makedirs(f, p, exist_ok) ==
    LET head == Parent(p)
        up == IF head # "" /\ f[head] = "absent"
              THEN makedirs(f, head, exist_ok)
              ELSE MkResult(f, "", 0)
        leaf == mkdir(up.fs, p)
    IN IF up.raises \notin {"", "FileExistsError"}
       THEN up
       ELSE IF leaf.raises = ""
       THEN MkResult(leaf.fs, "", up.made + leaf.made)
       ELSE IF exist_ok /\ up.fs[p] = "dir"
       THEN MkResult(up.fs, "", up.made)
       ELSE MkResult(up.fs, leaf.raises, up.made)

\* os.makedirs(path) without exist_ok.
make_path_strict(f, p) == makedirs(f, p, FALSE)

\* os.makedirs(path, exist_ok=True), as create_directories calls it.
make_path(f, p) == makedirs(f, p, TRUE)

\* The loop of create_directories over paths ps[k..]: it stops at the first
\* path that raises; each path made or found is logged when verbose.
RECURSIVE create_loop(_, _, _, _)
create_loop(f, ps, verbose, k) ==
    IF k > Len(ps) THEN [fs |-> f, raises |-> "", made |-> 0, log |-> <<>>]
    ELSE LET one == make_path(f, ps[k])
             rest == create_loop(one.fs, ps, verbose, k + 1)
             line == IF verbose
                     THEN <<LogRec("INFO", "created directory at: " \o ps[k])>>
                     ELSE <<>>
         IN IF one.raises # ""
            THEN [fs |-> one.fs, raises |-> one.raises, made |-> one.made,
                  log |-> <<>>]
            ELSE [fs |-> rest.fs, raises |-> rest.raises,
                  made |-> one.made + rest.made, log |-> line \o rest.log]

NoPaths == [paths |-> <<>>, times |-> 0]

create_directories(ps, verbose) ==
    /\ (lastPaths.times >= 1 /\ lastPaths.paths = ps) => lastPaths.times < MaxTimes
    /\ LET r == create_loop(fs, ps, verbose, 1)
       IN /\ fs' = r.fs
          /\ made' = r.made
          /\ ulog' = r.log
          /\ ucall' = IF r.raises = ""
                      THEN UReturned("create_directories", "None")
                      ELSE URaised("create_directories", r.raises, "")
    /\ lastPaths' = [paths |-> ps,
                     times |-> IF lastPaths.times >= 1 /\ lastPaths.paths = ps
                               THEN lastPaths.times + 1 ELSE 1]
    /\ UNCHANGED <<yamlFile, jsonFile, binFile, bytes>>
    /\ UNCHANGED vvars

CreateDirectories ==
    \E ps \in PathLists, verbose \in BOOLEAN : create_directories(ps, verbose)

\* The environment: something else puts a regular file at a free path, or
\* removes a file or an empty directory.
TreeChanges ==
    /\ \E p \in Paths :
          \/ /\ fs[p] = "absent"
             /\ Parent(p) # "" => fs[Parent(p)] = "dir"
             /\ fs' = [fs EXCEPT ![p] = "file"]
          \/ /\ fs[p] # "absent"
             /\ \A c \in Paths : Parent(c) = p => fs[c] = "absent"
             /\ fs' = [fs EXCEPT ![p] = "absent"]
    /\ lastPaths' = NoPaths
    /\ UNCHANGED <<yamlFile, jsonFile, binFile, ucall, ulog, bytes, made>>
    /\ UNCHANGED vvars

\* -------------------------------------------------------------------------
\* Specifications
\* -------------------------------------------------------------------------

ValidatorStart ==
    /\ schema \in Schemas
    /\ csv \in Tables
    /\ csvErr = "none"
    /\ statusWritable = TRUE
    /\ statusFile = NoFile
    /\ data = NoData
    /\ valid = TRUE
    /\ messages = <<>>
    /\ log = <<>>
    /\ loads = 0
    /\ outcome = NoOutcome
    /\ runs = 0
    /\ lastReport = NoFile

\* The validator before any call, on one fixed schema and table.
ValidatorIdle ==
    /\ schema = <<>>
    /\ csv = [c \in {"a"} |-> "int64"]
    /\ csvErr = "none"
    /\ statusWritable = TRUE
    /\ statusFile = NoFile
    /\ data = NoData
    /\ valid = TRUE
    /\ messages = <<>>
    /\ log = <<>>
    /\ loads = 0
    /\ outcome = NoOutcome
    /\ runs = 0
    /\ lastReport = NoFile

\* The utility library before any call.
UtilIdle ==
    /\ yamlFile = "mapping"
    /\ jsonFile = "object"
    /\ binFile = "object"
    /\ ucall = NoCall
    /\ ulog = <<>>
    /\ bytes = 0
    /\ fs = [p \in Paths |-> "absent"]
    /\ lastPaths = NoPaths
    /\ made = 0

\* The schema validator, on every schema and table of the universe.
Init == ValidatorStart /\ UtilIdle

Next ==
    \/ validate_all_columns
    \/ DataFileChanges
    \/ StatusDirChanges
    \/ StatusFileChanges

Spec == Init /\ [][Next]_vars

\* The read operations of the utility library.
ReadInit == ValidatorIdle /\ UtilIdle

ReadNext ==
    \/ read_yaml
    \/ load_json
    \/ load_bin
    \/ YamlFileChanges
    \/ JsonFileChanges
    \/ BinFileChanges

SpecRead == ReadInit /\ [][ReadNext]_vars

\* get_size on a file of every size up to MaxBytes.
SizeInit ==
    /\ ValidatorIdle
    /\ yamlFile = "mapping"
    /\ jsonFile = "object"
    /\ binFile = "object"
    /\ ucall = NoCall
    /\ ulog = <<>>
    /\ bytes \in 0..MaxBytes
    /\ fs = [p \in Paths |-> "absent"]
    /\ lastPaths = NoPaths
    /\ made = 0

SizeNext == get_size

SpecSize == SizeInit /\ [][SizeNext]_vars

\* create_directories on a directory tree that other programs change too.
DirsInit == ValidatorIdle /\ UtilIdle

DirsNext ==
    \/ CreateDirectories
    \/ TreeChanges

SpecDirs == DirsInit /\ [][DirsNext]_vars

\* -------------------------------------------------------------------------
\* Properties of the schema validator
\* -------------------------------------------------------------------------

\* The most recent call ran on the data file and directory as they are now.
Called == runs >= 1

\* ... and its read_csv returned the table.
CalledLoaded == Called /\ csvErr = "none"

\* ... and its open(STATUS_FILE, 'w') succeeded too (the input constraints
\* of validate hold).
CalledOk == CalledLoaded /\ statusWritable

SchemaKeys(S) == {S[i].col : i \in 1..Len(S)}

\* The schema items whose column is absent from / mismatching in the table.
AbsentAt(S, T) == {i \in 1..Len(S) : S[i].col \notin DOMAIN T}

MismatchAt(S, T) ==
    {i \in 1..Len(S) : S[i].col \in DOMAIN T /\ T[S[i].col] # S[i].type}

Conforms(S, T) ==
    /\ SchemaKeys(S) \subseteq DOMAIN T
    /\ \A i \in 1..Len(S) : S[i].col \in DOMAIN T => T[S[i].col] = S[i].type

\* The items of S at the indices in I, in schema order, each rendered by f.
RECURSIVE Listing(_, _, _, _)
Listing(S, I, f(_), k) ==
    IF k > Len(S) THEN <<>>
    ELSE (IF k \in I THEN <<f(S[k])>> ELSE <<>>) \o Listing(S, I, f, k + 1)

\* A Python list of quoted strings as text, written out character by
\* character.
RECURSIVE Quoted(_)
Quoted(seq) ==
    IF seq = <<>> THEN ""
    ELSE "'" \o Head(seq) \o "'"
         \o (IF Len(seq) > 1 THEN ", " ELSE "") \o Quoted(Tail(seq))

ExpectedMissingLine(S, T) ==
    LET name(item) == item.col
    IN "Missing columns: [" \o Quoted(Listing(S, AbsentAt(S, T), name, 1)) \o "]"

ExpectedMismatchLine(S, T) ==
    LET entry(item) ==
            item.col \o ": expected " \o item.type \o ", got " \o T[item.col]
    IN "Data type mismatches found: ["
           \o Quoted(Listing(S, MismatchAt(S, T), entry, 1)) \o "]"

\* The example of the specification, with the tags of the model's universe:
\* schema {a: int64, b: object, c: object}, table with only c, of dtype int64.
ExampleSchema ==
    <<[col |-> "a", type |-> "int64"], [col |-> "b", type |-> "object"],
      [col |-> "c", type |-> "object"]>>

ExampleTable == [x \in {"c"} |-> "int64"]

ExampleReport ==
    "Validation status: False\nMissing columns: ['a', 'b']\n"
        \o "Data type mismatches found: ['c: expected object, got int64']"

\* C1: on a table that loads, validate_all_columns returns (it does not
\* raise), and it returns True exactly when every schema key is a column of
\* the table and every shared column has the dtype string the schema gives;
\* otherwise it returns False.
C1_ReturnsTrueIffConforms ==
    CalledOk =>
        /\ outcome.kind = "return"
        /\ outcome.value = Conforms(schema, csv)

\* C1 witness: a call returned False on a table that has every schema column
\* and differs from the schema in a dtype only.
C1_Witness ==
    /\ CalledOk
    /\ outcome = Returned(FALSE)
    /\ Len(schema) = 3
    /\ AbsentAt(schema, csv) = {}
    /\ Cardinality(MismatchAt(schema, csv)) = 1

\* C2: a call whose table load raises ends by raising and leaves the status
\* file exactly as it was: its contents are unchanged, and it is not created
\* if it did not exist.
C2_FailedLoadLeavesStatusFile ==
    [][(validate_all_columns /\ csvErr # "none") =>
           (outcome'.kind = "raise" /\ statusFile' = statusFile)]_vars

\* C2 witness: a call failed on an unreadable data file while a status file
\* from an earlier run was in place, and that file is still there.
C2_Witness ==
    /\ Called
    /\ csvErr = "FileNotFoundError"
    /\ outcome.kind = "raise"
    /\ lastReport = StaleReport
    /\ statusFile = StaleReport

\* C3: once the table is loaded, the flag valid is False exactly when the
\* message list is non-empty; this is the state in which the status file is
\* written and the value returned.
C3_InvalidIffMessages ==
    (Called /\ data.loaded) =>
        /\ (valid = FALSE) <=> (messages # <<>>)
        /\ outcome.kind = "return" => outcome.value = valid

\* C3 witness: a call returned with both messages accumulated and the flag
\* False.
C3_Witness ==
    /\ CalledOk
    /\ Len(messages) = 2
    /\ valid = FALSE
    /\ outcome = Returned(FALSE)

\* C4: when the table lacks schema columns and a present schema column has
\* another dtype than expected, the call returns False and the status file
\* is the line "Validation status: False", then the missing-columns message
\* (the absent schema keys in schema order), then the mismatch message (one
\* entry "col: expected E, got G" per mismatching shared column).
C4_BothMessages ==
    (CalledOk /\ AbsentAt(schema, csv) # {} /\ MismatchAt(schema, csv) # {}) =>
        /\ outcome = Returned(FALSE)
        /\ lastReport.exists
        /\ lastReport.text =
               "Validation status: False\n" \o ExpectedMissingLine(schema, csv)
                   \o "\n" \o ExpectedMismatchLine(schema, csv)
        /\ (schema = ExampleSchema /\ csv = ExampleTable) =>
               lastReport.text = ExampleReport

\* C4 witness: the example has been validated and reported.
C4_Witness ==
    /\ CalledOk
    /\ schema = ExampleSchema
    /\ csv = ExampleTable
    /\ outcome = Returned(FALSE)
    /\ statusFile = File(ExampleReport)

\* C5: a call whose table loads writes the status file, also when the table
\* is valid: on a conforming table it returns True and the file is exactly
\* the one line "Validation status: True".
C5_ValidReportIsOneLine ==
    CalledOk =>
        /\ lastReport.exists
        /\ Conforms(schema, csv) =>
               /\ outcome = Returned(TRUE)
               /\ lastReport = File("Validation status: True\n")

\* C5 witness: a conforming table with a three-column schema was validated
\* over a stale report, and the status file is the single status line.
C5_Witness ==
    /\ CalledOk
    /\ Len(schema) = 3
    /\ Conforms(schema, csv)
    /\ outcome = Returned(TRUE)
    /\ statusFile = File("Validation status: True\n")

\* C6: a call that follows a returned call on the same data file and schema
\* returns the same boolean and leaves the status file byte-identical to
\* what the earlier call left, whatever the file held in between.
C6_Idempotent ==
    [][(validate_all_columns /\ Called /\ outcome.kind = "return") =>
           (outcome' = outcome /\ statusFile' = lastReport)]_vars

\* C6 witness: the second of two calls on the same inputs has returned on
\* an invalid table and the status file holds its two-message report.
C6_Witness ==
    /\ runs = 2
    /\ outcome = Returned(FALSE)
    /\ Len(messages) = 2
    /\ statusFile = lastReport

\* C8 as claimed: a failing load makes the call fail with a DataLoadError
\* that wraps the underlying cause.
C8_Claimed_DataLoadError ==
    (Called /\ csvErr # "none") =>
        /\ outcome.kind = "raise"
        /\ outcome.exc.type = "DataLoadError"
        /\ outcome.exc.cause = csvErr

\* C8 amended: a failing load is logged once, at exception level, and the
\* call then raises the very exception the load raised, unwrapped; nothing
\* is returned and the load is attempted once.
C8_ReraisesUnderlying ==
    (Called /\ csvErr # "none") =>
        /\ outcome = Raised(Exc(csvErr))
        /\ log = <<LogRec("EXCEPTION", "Exception occurred during validation")>>
        /\ loads = 1

\* C8 witness: a call on an unparsable data file has raised.
C8_Witness ==
    /\ Called
    /\ csvErr = "ParserError"
    /\ outcome.kind = "raise"
    /\ loads = 1

\* -------------------------------------------------------------------------
\* Properties of the utility library
\* -------------------------------------------------------------------------

ReadOps == {"read_yaml", "load_json", "load_bin"}

\* C7: a read operation that ended by raising has logged nothing.
C7_FailedReadLogsNothing ==
    (ucall.op \in ReadOps /\ ucall.kind = "raise") => ulog = <<>>

\* The size in KB as the claim states it: the integer nearest to b / 1024,
\* and of two equally near ones the even one.
NearestEven(b, n) ==
    /\ 2 * (KB * n - b) <= KB
    /\ 2 * (b - KB * n) <= KB
    /\ (2 * (b - KB * n) = KB \/ 2 * (KB * n - b) = KB) => n % 2 = 0

\* C9: get_size returns "~ N KB" with N the integer nearest to bytes / 1024,
\* a half going to the even neighbour: 2048 gives 2, 1500 gives 1, 512 gives
\* 0, 1536 gives 2, 2560 gives 2.
C9_RoundsHalfToEven ==
    ucall.op = "get_size" =>
        /\ \E n \in 0..((bytes \div KB) + 1) :
              /\ NearestEven(bytes, n)
              /\ ucall = UReturned("get_size", "~ " \o ToString(n) \o " KB")
        /\ bytes = 2048 => ucall.value = "~ 2 KB"
        /\ bytes = 1500 => ucall.value = "~ 1 KB"
        /\ bytes = 512 => ucall.value = "~ 0 KB"
        /\ bytes = 1536 => ucall.value = "~ 2 KB"
        /\ bytes = 2560 => ucall.value = "~ 2 KB"

\* C9 witness: a file of 2560 bytes, half-way between 2 KB and 3 KB, has
\* been measured as 2 KB.
C9_Witness ==
    /\ bytes = 2560
    /\ ucall = UReturned("get_size", "~ 2 KB")

\* A path create_directories cannot make: it, or its parent, is a regular
\* file.
Blocked(f, p) ==
    \/ f[p] = "file"
    \/ Parent(p) # "" /\ f[Parent(p)] = "file"

Listed(ps) == {ps[i] : i \in 1..Len(ps)}

Directories(f) == {p \in Paths : f[p] = "dir"}

\* A step of create_directories: it alone counts a call in lastPaths, and
\* lastPaths' holds the list it was given.
CreateStep == lastPaths' # lastPaths /\ lastPaths'.times >= 1

\* The step repeats the list of the call before it.
RepeatStep == CreateStep /\ lastPaths'.times >= 2

\* C10 as claimed: after any call every listed path is a directory, and a
\* call repeating the list of the call before it raises nothing and changes
\* nothing.
C10_Claimed_AlwaysDirectories ==
    [][/\ CreateStep => \A p \in Listed(lastPaths'.paths) : fs'[p] = "dir"
       /\ RepeatStep =>
              /\ ucall'.kind = "return"
              /\ Directories(fs') = Directories(fs)
              /\ made' = 0]_vars

\* C10 amended: a call raises exactly when a listed path, or its parent, is
\* a regular file; after a call that returns every listed path is a
\* directory, whether or not it existed before; and a call repeating the
\* list of a returned call returns, makes no directory and leaves the set of
\* directories as it was.
C10_IdempotentWhenReturning ==
    [][/\ CreateStep =>
              /\ ucall'.kind = "raise" <=>
                     \E p \in Listed(lastPaths'.paths) : Blocked(fs, p)
              /\ ucall'.kind = "return" =>
                     \A p \in Listed(lastPaths'.paths) : fs'[p] = "dir"
       /\ (RepeatStep /\ ucall.kind = "return") =>
              /\ ucall'.kind = "return"
              /\ Directories(fs') = Directories(fs)
              /\ fs' = fs
              /\ made' = 0]_vars

\* C10 witness: the second of two calls with the list (artifacts/data, logs)
\* has returned; it made nothing and both paths, and the parent, are
\* directories.
C10_Witness ==
    /\ lastPaths = [paths |-> <<"artifacts/data", "logs">>, times |-> 2]
    /\ ucall = UReturned("create_directories", "None")
    /\ made = 0
    /\ Directories(fs) = {"artifacts", "artifacts/data", "logs"}

====
